---- MODULE Spec2Model ----
(***************************************************************************)
(* Model of the chat widget AgentComponent (pages/index.js and its         *)
(* earlier variant): the identifier bootstrap getSessionId / getUserId,    *)
(* the component state kept with useState, and submitMessage with its two  *)
(* awaits (fetch, res.json()), the rotation of the suggested prompts, the  *)
(* loading animation and the suggestion button.                            *)
(*                                                                         *)
(* JavaScript strings are sequences of one-character strings.  A value     *)
(* that may be null is Null or Str(s).  Handlers run to completion, so     *)
(* each handler, and each continuation of an await, is one action.         *)
(***************************************************************************)
EXTENDS Integers, Sequences, FiniteSets, TLC

VARIABLES
    hasWindow,       \* TRUE in a browser, FALSE in a server-side render
    sessionStorage,  \* what sessionStorage.getItem("sessionId") yields
    localStorage,    \* what localStorage.getItem("userId") yields
    mounted,         \* the mount effect has run
    message,         \* useState(""): the input text
    conversation,    \* useState([]): sequence of {role, content}
    error,           \* useState(null)
    isLoading,       \* useState(false)
    sessionId,       \* useState("")
    userId,          \* useState("")
    requests,        \* every POST issued so far, with the position of its submitMessage call
    origin,          \* history: for each Message of conversation, the request it belongs to
    lastCall,        \* history: what the latest step did, if it called submitMessage
    idLog,           \* history: the calls of getSessionId / getUserId so far
    loadingStep,         \* useState(1)
    currentPromptIndex,  \* useState(0)
    promptVisible,       \* useState(true)
    rotationInterval,    \* the 5000 ms interval of the rotation effect is set
    fadeTimeout,         \* the 500 ms timeout a rotation tick started is pending
    animationTimer,      \* the 300 ms interval of the animation effect is set
    unmounted            \* the component has been torn down

timerVars == <<loadingStep, currentPromptIndex, promptVisible, rotationInterval,
               fadeTimeout, animationTimer, unmounted>>

vars == <<hasWindow, sessionStorage, localStorage, mounted, message, conversation,
          error, isLoading, sessionId, userId, requests, origin, lastCall, idLog,
          loadingStep, currentPromptIndex, promptVisible, rotationInterval,
          fadeTimeout, animationTimer, unmounted>>

----------------------------------------------------------------------------
(* Bounds *)

MaxSubmits == 2
MaxIdCalls == 3

----------------------------------------------------------------------------
(* JavaScript values *)

Null == [t |-> "null"]
Undefined == [t |-> "undefined"]
Str(s) == [t |-> "string", v |-> s]
Obj(f) == [t |-> "object", f |-> f]

\* A string of n copies of the character c.
Repeat(c, n) == [i \in 1..n |-> c]

WhiteSpace == {" "}

\* The texts typed into the input field: empty, blank, plain, with white
\* space around, and with white space inside.
InputStrings ==
    {<<>>, <<" ", " ">>, <<"a">>, <<" ", "a", " ">>, <<"b", " ", "c">>}

IsBlank(s) == \A i \in 1..Len(s) : s[i] \in WhiteSpace

RECURSIVE TrimStart(_)
TrimStart(s) ==
    IF s # <<>> /\ Head(s) \in WhiteSpace THEN TrimStart(Tail(s)) ELSE s

RECURSIVE TrimEnd(_)
TrimEnd(s) ==
    IF s # <<>> /\ s[Len(s)] \in WhiteSpace
    THEN TrimEnd(SubSeq(s, 1, Len(s) - 1))
    ELSE s

TrimNothing(s) == s

\* String.prototype.trim
Trim(s) == TrimEnd(TrimStart(s))

\* JavaScript truthiness of the values the model uses.
Truthy(x) ==
    /\ x # Null
    /\ x # Undefined
    /\ x.t = "string" => x.v # <<>>

\* Property access obj.k on an object value; a missing key reads undefined.
Get(obj, k) == IF k \in DOMAIN obj.f THEN obj.f[k] ELSE Undefined

----------------------------------------------------------------------------
(* Identifier bootstrap *)

MaxIdLen == 32

\* The seeds stand for the randomness of uuidv4().
UuidSeeds == {"a", "b", "c"}

\* uuidv4(): 36 characters, hyphens at 9, 14, 19 and 24, version digit 4.
UuidV4(seed) ==
    [i \in 1..36 |->
        IF i \in {9, 14, 19, 24} THEN "-"
        ELSE IF i = 15 THEN "4"
        ELSE IF i = 20 THEN "8"
        ELSE seed]

IsNotHyphen(c) == c # "-"

\* .replace(/-/g, "")
RemoveHyphens(s) == SelectSeq(s, IsNotHyphen)

\* .slice(0, n)
SliceFromStart(s, n) == SubSeq(s, 1, IF Len(s) < n THEN Len(s) ELSE n)

GenerateIdUnsliced(seed) == UuidV4(seed)

\* uuidv4().replace(/-/g, "").slice(0, 32)
GenerateId(seed) == SliceFromStart(RemoveHyphens(UuidV4(seed)), MaxIdLen)

IdKeptBelowLimit(stored) ==
    IF Truthy(stored) /\ Len(stored.v) < MaxIdLen THEN stored ELSE Null

\* sessionId && sessionId.length <= 32 ? sessionId : null
KeepStoredId(stored) ==
    IF Truthy(stored) /\ Len(stored.v) <= MaxIdLen THEN stored ELSE Null

ReadOrCreateIdInAnyContext(win, stored, seed) ==
    LET kept == KeepStoredId(stored)
    IN  IF ~Truthy(kept)
        THEN [ret |-> GenerateId(seed), stored |-> Str(GenerateId(seed)),
              read |-> TRUE, wrote |-> TRUE]
        ELSE [ret |-> kept.v, stored |-> stored, read |-> TRUE, wrote |-> FALSE]

\* The body shared by getSessionId and getUserId: the value returned, the
\* storage entry afterwards, and whether getItem and setItem were called.
ReadOrCreateId(win, stored, seed) ==
    IF ~win
    THEN [ret |-> <<>>, stored |-> stored, read |-> FALSE, wrote |-> FALSE]
    ELSE LET kept == KeepStoredId(stored)
         IN  IF ~Truthy(kept)
             THEN [ret |-> GenerateId(seed), stored |-> Str(GenerateId(seed)),
                   read |-> TRUE, wrote |-> TRUE]
             ELSE [ret |-> kept.v, stored |-> stored, read |-> TRUE,
                   wrote |-> FALSE]

GetSessionId(win, stored, seed) == ReadOrCreateId(win, stored, seed)

GetUserId(win, stored, seed) == ReadOrCreateId(win, stored, seed)

\* What a storage entry can hold before the page runs: nothing, or any
\* string another script or an earlier version left there.
StoredValues ==
    {Null, Str(<<>>), Str(Repeat("x", 1)), Str(Repeat("x", MaxIdLen)),
     Str(Repeat("x", MaxIdLen + 1))}

LogCall(log, fn, r) ==
    [log EXCEPT ![fn] = Append(@, [ret |-> r.ret, read |-> r.read,
                                   wrote |-> r.wrote])]

----------------------------------------------------------------------------
(* The proxy's answers *)

Statuses == {200, 500}

\* Response.ok
Ok(status) == status >= 200 /\ status <= 299

ReplyTexts == {<<"H", "i">>}

\* What res.json() can resolve to.  A property that is missing reads
\* undefined, so an object is given by what its properties read.
OutputDataValues ==
    {Undefined, Null, Obj([content |-> Undefined]), Obj([content |-> Str(<<>>)])}
        \cup {Obj([content |-> Str(c)]) : c \in ReplyTexts}

ResponseBodies == {Null} \cup {Obj([output_data |-> od]) : od \in OutputDataValues}

\* The messages of the errors the runtime raises.
NetworkErrors == {"Failed to fetch"}
ParseErrors == {"Unexpected end of JSON input"}
NullReadError == "Cannot read properties of null (reading 'output_data')"

NoValidResponse ==
    <<"N", "o", " ", "v", "a", "l", "i", "d", " ", "r", "e", "s", "p", "o", "n",
      "s", "e", " ", "r", "e", "c", "e", "i", "v", "e", "d", " ", "f", "r", "o",
      "m", " ", "a", "g", "e", "n", "t", ".">>

AgentReplyNeverFromBody(data) == NoValidResponse

\* data.output_data && data.output_data.content
\*     ? data.output_data.content : "No valid response received from agent."
AgentReply(data) ==
    LET od == Get(data, "output_data")
    IN  IF Truthy(od) /\ Truthy(Get(od, "content"))
        THEN Get(od, "content").v
        ELSE NoValidResponse

----------------------------------------------------------------------------
(* The component *)

NoIdCalls == [session |-> <<>>, user |-> <<>>]

ComponentInit ==
    /\ mounted = FALSE
    /\ message = <<>>
    /\ conversation = <<>>
    /\ error = Null
    /\ isLoading = FALSE
    /\ sessionId = <<>>
    /\ userId = <<>>
    /\ requests = <<>>
    /\ origin = <<>>
    /\ lastCall = "none"
    /\ idLog = NoIdCalls
    /\ loadingStep = 1
    /\ currentPromptIndex = 0
    /\ promptVisible = TRUE
    /\ rotationInterval = FALSE
    /\ fadeTimeout = FALSE
    /\ animationTimer = FALSE
    /\ unmounted = FALSE

\* The page loaded in a tab that has run it before: both storages hold an
\* identifier of an earlier load.
Init ==
    /\ hasWindow = TRUE
    /\ sessionStorage = Str(GenerateId("a"))
    /\ localStorage = Str(GenerateId("b"))
    /\ ComponentInit

\* The page loaded in a browser whose storages hold anything.
InitIds ==
    /\ hasWindow = TRUE
    /\ sessionStorage \in StoredValues
    /\ localStorage \in StoredValues
    /\ ComponentInit

\* The effects: React runs an effect after the render that follows a change
\* of one of its dependencies, its cleanup first; here each runs in the step
\* that changes the dependency.

\* useEffect(..., [isLoading]): the cleanup clears the interval the last run
\* set; the run sets a new one when isLoading, else it resets loadingStep.
AnimationEffect(wasLoading, nowLoading) ==
    IF wasLoading = nowLoading
    THEN UNCHANGED <<loadingStep, animationTimer>>
    ELSE IF nowLoading
         THEN /\ animationTimer' = TRUE
              /\ UNCHANGED loadingStep
         ELSE /\ animationTimer' = FALSE
              /\ loadingStep' = 1

\* useEffect(..., [conversation.length]): the cleanup clears the interval
\* the last run set; the run sets one when the conversation is empty.  The
\* timeout a tick has started is not touched.
RotationEffect(oldLength, newLength) ==
    IF oldLength = newLength
    THEN UNCHANGED rotationInterval
    ELSE rotationInterval' = (newLength = 0)

\* The effects after a handler or a continuation of submitMessage.
Effects ==
    /\ AnimationEffect(isLoading, isLoading')
    /\ RotationEffect(Len(conversation), Len(conversation'))
    /\ UNCHANGED <<currentPromptIndex, promptVisible, fadeTimeout, unmounted>>

\* The first run of the two timer effects, after the first render.
MountEffects ==
    /\ rotationInterval' = (Len(conversation) = 0)
    /\ animationTimer' = isLoading
    /\ loadingStep' = IF isLoading THEN loadingStep ELSE 1
    /\ UNCHANGED <<currentPromptIndex, promptVisible, fadeTimeout, unmounted>>

\* useEffect(() => { setSessionId(getSessionId()); setUserId(getUserId()); }, [])
Mount ==
    /\ hasWindow
    /\ ~mounted
    /\ \E s1 \in UuidSeeds, s2 \in UuidSeeds :
          LET rs == GetSessionId(hasWindow, sessionStorage, s1)
              ru == GetUserId(hasWindow, localStorage, s2)
          IN  /\ sessionId' = rs.ret
              /\ sessionStorage' = rs.stored
              /\ userId' = ru.ret
              /\ localStorage' = ru.stored
              /\ idLog' = LogCall(LogCall(idLog, "session", rs), "user", ru)
    /\ mounted' = TRUE
    /\ lastCall' = "none"
    /\ MountEffects
    /\ UNCHANGED <<hasWindow, message, conversation, error, isLoading, requests,
                   origin>>

\* The page is loaded again in the same tab: the component is constructed
\* anew, both storages keep what they hold.
Reload ==
    /\ mounted
    /\ Len(idLog.session) < MaxIdCalls
    /\ mounted' = FALSE
    /\ message' = <<>>
    /\ conversation' = <<>>
    /\ error' = Null
    /\ isLoading' = FALSE
    /\ sessionId' = <<>>
    /\ userId' = <<>>
    /\ requests' = <<>>
    /\ origin' = <<>>
    /\ lastCall' = "none"
    /\ loadingStep' = 1
    /\ currentPromptIndex' = 0
    /\ promptVisible' = TRUE
    /\ rotationInterval' = FALSE
    /\ fadeTimeout' = FALSE
    /\ animationTimer' = FALSE
    /\ UNCHANGED <<hasWindow, sessionStorage, localStorage, idLog, unmounted>>

\* onChange={(e) => setMessage(e.target.value)}
Type ==
    /\ mounted
    /\ ~unmounted
    /\ \E s \in InputStrings : message' = s
    /\ lastCall' = "none"
    /\ UNCHANGED timerVars
    /\ UNCHANGED <<hasWindow, sessionStorage, localStorage, mounted, conversation,
                   error, isLoading, sessionId, userId, requests, origin, idLog>>

----------------------------------------------------------------------------
(* submitMessage *)

UserMessage(userInput) == [role |-> "user", content |-> Trim(userInput)]

PayloadIdsSwapped(userMessage, uid, sid) ==
    [data |-> [message |-> userMessage],
     stateful |-> TRUE,
     stream |-> FALSE,
     user_id |-> sid,
     session_id |-> uid,
     verbose |-> FALSE]

Payload(userMessage, uid, sid) ==
    [data |-> [message |-> userMessage],
     stateful |-> TRUE,
     stream |-> FALSE,
     user_id |-> uid,
     session_id |-> sid,
     verbose |-> FALSE]

\* The request fetch("/api/proxy", {method: "POST", body: payload}) starts.
\* input and at are history: the text submitMessage was called with, and the
\* length the conversation has, with the updates queued so far, when fetch
\* is called.
NewRequest(payload, userInput, convLen) ==
    [payload |-> payload, input |-> userInput, at |-> convLen, pc |-> "fetch",
     result |-> "pending"]

SubmitUpdatesFetchFirst(st, userInput) ==
    LET s1 == [st EXCEPT !.message = <<>>]
        s2 == [s1 EXCEPT !.error = Null]
        userMessage == UserMessage(userInput)
        payload == Payload(userMessage, userId, sessionId)
        s3 == [s2 EXCEPT !.isLoading = TRUE]
        s4 == [s3 EXCEPT !.requests =
                  Append(@, NewRequest(payload, userInput, Len(s3.conversation)))]
    IN  [s4 EXCEPT !.conversation = Append(@, userMessage)]

SubmitUpdatesKeepsError(st, userInput) ==
    LET s1 == [st EXCEPT !.message = <<>>]
        userMessage == UserMessage(userInput)
        s3 == [s1 EXCEPT !.conversation = Append(@, userMessage)]
        payload == Payload(userMessage, userId, sessionId)
        s4 == [s3 EXCEPT !.isLoading = TRUE]
    IN  [s4 EXCEPT !.requests =
            Append(@, NewRequest(payload, userInput, Len(s4.conversation)))]

\* The state updates of submitMessage up to its first await, in program
\* order, on the record st of the component state it touches.
SubmitUpdates(st, userInput) ==
    LET s1 == [st EXCEPT !.message = <<>>]
        s2 == [s1 EXCEPT !.error = Null]
        userMessage == UserMessage(userInput)
        s3 == [s2 EXCEPT !.conversation = Append(@, userMessage)]
        payload == Payload(userMessage, userId, sessionId)
        s4 == [s3 EXCEPT !.isLoading = TRUE]
    IN  [s4 EXCEPT !.requests =
            Append(@, NewRequest(payload, userInput, Len(s4.conversation)))]

SubmitMessageGuarded(userInput, blocked) ==
    IF Trim(userInput) = <<>> \/ blocked
    THEN /\ lastCall' = "ignored"
         /\ UNCHANGED <<message, conversation, error, isLoading, requests, origin>>
    ELSE /\ Len(requests) < MaxSubmits
         /\ LET st == SubmitUpdates(
                        [message |-> message, error |-> error,
                         conversation |-> conversation, isLoading |-> isLoading,
                         requests |-> requests], userInput)
            IN  /\ message' = st.message
                /\ error' = st.error
                /\ conversation' = st.conversation
                /\ isLoading' = st.isLoading
                /\ requests' = st.requests
                /\ origin' = Append(origin, Len(st.requests))
         /\ lastCall' = "sent"

SubmitMessageRefusedAfterError(userInput) ==
    SubmitMessageGuarded(userInput, error # Null)

SubmitMessageRefusedWhileLoading(userInput) ==
    SubmitMessageGuarded(userInput, isLoading)

\* submitMessage(userInput), up to the first await.
SubmitMessage(userInput) ==
    IF Trim(userInput) = <<>>
    THEN /\ lastCall' = "ignored"
         /\ UNCHANGED <<message, conversation, error, isLoading, requests, origin>>
    ELSE /\ Len(requests) < MaxSubmits
         /\ LET st == SubmitUpdates(
                        [message |-> message, error |-> error,
                         conversation |-> conversation, isLoading |-> isLoading,
                         requests |-> requests], userInput)
            IN  /\ message' = st.message
                /\ error' = st.error
                /\ conversation' = st.conversation
                /\ isLoading' = st.isLoading
                /\ requests' = st.requests
                /\ origin' = Append(origin, Len(st.requests))
         /\ lastCall' = "sent"

\* handleSubmit: the form's submit event, or Enter in the input field.
HandleSubmit ==
    /\ mounted
    /\ ~unmounted
    /\ SubmitMessage(message)
    /\ Effects
    /\ UNCHANGED <<hasWindow, sessionStorage, localStorage, mounted, sessionId,
                   userId, idLog>>

Fetching == {r \in DOMAIN requests : requests[r].pc = "fetch"}
Parsing == {r \in DOMAIN requests : requests[r].pc = "json"}
InFlight == Fetching \cup Parsing

FailWithoutError(r, text) ==
    /\ isLoading' = FALSE
    /\ requests' = [requests EXCEPT ![r].pc = "done", ![r].result = "failed"]
    /\ UNCHANGED <<message, conversation, origin, error>>

FailKeepsLoading(r, text) ==
    /\ error' = Str(text)
    /\ requests' = [requests EXCEPT ![r].pc = "done", ![r].result = "failed"]
    /\ UNCHANGED <<message, conversation, origin, isLoading>>

FailAndRetry(r, text) ==
    /\ error' = Str(text)
    /\ isLoading' = FALSE
    /\ requests' =
          Append([requests EXCEPT ![r].pc = "done", ![r].result = "failed"],
                 [requests[r] EXCEPT !.pc = "fetch", !.result = "pending"])
    /\ UNCHANGED <<message, conversation, origin>>

FailAppendsErrorMessage(r, text) ==
    /\ error' = Str(text)
    /\ isLoading' = FALSE
    /\ requests' = [requests EXCEPT ![r].pc = "done", ![r].result = "failed"]
    /\ conversation' = Append(conversation, [role |-> "agent", content |-> <<>>])
    /\ origin' = Append(origin, r)
    /\ UNCHANGED message

FailClearsInput(r, text) ==
    /\ error' = Str(text)
    /\ isLoading' = FALSE
    /\ requests' = [requests EXCEPT ![r].pc = "done", ![r].result = "failed"]
    /\ message' = <<>>
    /\ UNCHANGED <<conversation, origin>>

\* catch (err) { setError(err.message) } finally { setIsLoading(false) }
Fail(r, text) ==
    /\ error' = Str(text)
    /\ isLoading' = FALSE
    /\ requests' = [requests EXCEPT ![r].pc = "done", ![r].result = "failed"]
    /\ UNCHANGED <<message, conversation, origin>>

\* fetch resolves with a response of the given status: res.ok is tested and
\* res.json() is awaited, or the "Server error" is thrown and caught.
FetchResolve(r, status) ==
    /\ r \in Fetching
    /\ ~unmounted
    /\ IF ~Ok(status)
       THEN Fail(r, "Server error: " \o ToString(status))
       ELSE /\ requests' = [requests EXCEPT ![r].pc = "json"]
            /\ UNCHANGED <<message, conversation, error, isLoading, origin>>
    /\ lastCall' = "none"
    /\ Effects
    /\ UNCHANGED <<hasWindow, sessionStorage, localStorage, mounted, sessionId,
                   userId, idLog>>

\* fetch rejects: the network failed.
FetchReject(r, text) ==
    /\ r \in Fetching
    /\ ~unmounted
    /\ Fail(r, text)
    /\ lastCall' = "none"
    /\ Effects
    /\ UNCHANGED <<hasWindow, sessionStorage, localStorage, mounted, sessionId,
                   userId, idLog>>

JsonResolveReplacesLast(r, data) ==
    /\ r \in Parsing
    /\ ~unmounted
    /\ IF data = Null
       THEN Fail(r, NullReadError)
       ELSE /\ conversation' =
                  Append(SubSeq(conversation, 1, Len(conversation) - 1),
                         [role |-> "agent", content |-> AgentReply(data)])
            /\ origin' = Append(SubSeq(origin, 1, Len(origin) - 1), r)
            /\ message' = <<>>
            /\ isLoading' = FALSE
            /\ requests' = [requests EXCEPT ![r].pc = "done", ![r].result = "ok"]
            /\ UNCHANGED error
    /\ lastCall' = "none"
    /\ Effects
    /\ UNCHANGED <<hasWindow, sessionStorage, localStorage, mounted, sessionId,
                   userId, idLog>>

InsertAt(seq, k, x) == SubSeq(seq, 1, k - 1) \o <<x>> \o SubSeq(seq, k, Len(seq))

\* Where a reply would go if the replies were kept in the order of their
\* requests: before the first reply to a later request.
SubmitOrderPosition(r) ==
    LET later == {i \in DOMAIN conversation :
                     conversation[i].role = "agent" /\ origin[i] > r}
    IN  IF later = {} THEN Len(conversation) + 1
        ELSE CHOOSE i \in later : \A j \in later : i <= j

JsonResolveInSubmitOrder(r, data) ==
    /\ r \in Parsing
    /\ ~unmounted
    /\ IF data = Null
       THEN Fail(r, NullReadError)
       ELSE /\ conversation' =
                  InsertAt(conversation, SubmitOrderPosition(r),
                           [role |-> "agent", content |-> AgentReply(data)])
            /\ origin' = InsertAt(origin, SubmitOrderPosition(r), r)
            /\ message' = <<>>
            /\ isLoading' = FALSE
            /\ requests' = [requests EXCEPT ![r].pc = "done", ![r].result = "ok"]
            /\ UNCHANGED error
    /\ lastCall' = "none"
    /\ Effects
    /\ UNCHANGED <<hasWindow, sessionStorage, localStorage, mounted, sessionId,
                   userId, idLog>>

JsonResolveClearsError(r, data) ==
    /\ r \in Parsing
    /\ ~unmounted
    /\ IF data = Null
       THEN Fail(r, NullReadError)
       ELSE /\ conversation' =
                  Append(conversation, [role |-> "agent", content |-> AgentReply(data)])
            /\ origin' = Append(origin, r)
            /\ message' = <<>>
            /\ isLoading' = FALSE
            /\ requests' = [requests EXCEPT ![r].pc = "done", ![r].result = "ok"]
            /\ error' = Null
    /\ lastCall' = "none"
    /\ Effects
    /\ UNCHANGED <<hasWindow, sessionStorage, localStorage, mounted, sessionId,
                   userId, idLog>>

\* res.json() resolves with data: the rest of the try block, then finally.
JsonResolve(r, data) ==
    /\ r \in Parsing
    /\ ~unmounted
    /\ IF data = Null
       THEN Fail(r, NullReadError)
       ELSE /\ conversation' =
                  Append(conversation, [role |-> "agent", content |-> AgentReply(data)])
            /\ origin' = Append(origin, r)
            /\ message' = <<>>
            /\ isLoading' = FALSE
            /\ requests' = [requests EXCEPT ![r].pc = "done", ![r].result = "ok"]
            /\ UNCHANGED error
    /\ lastCall' = "none"
    /\ Effects
    /\ UNCHANGED <<hasWindow, sessionStorage, localStorage, mounted, sessionId,
                   userId, idLog>>

\* res.json() rejects: the body is not JSON.
JsonReject(r, text) ==
    /\ r \in Parsing
    /\ ~unmounted
    /\ Fail(r, text)
    /\ lastCall' = "none"
    /\ Effects
    /\ UNCHANGED <<hasWindow, sessionStorage, localStorage, mounted, sessionId,
                   userId, idLog>>

FetchSettles ==
    \E r \in DOMAIN requests :
        \/ \E status \in Statuses : FetchResolve(r, status)
        \/ \E text \in NetworkErrors : FetchReject(r, text)

JsonSettles ==
    \E r \in DOMAIN requests :
        \/ \E data \in ResponseBodies : JsonResolve(r, data)
        \/ \E text \in ParseErrors : JsonReject(r, text)

Next ==
    \/ Mount
    \/ Type
    \/ HandleSubmit
    \/ FetchSettles
    \/ JsonSettles

Spec == Init /\ [][Next]_vars

\* chatConfig.suggestedPrompts
SuggestedPrompts ==
    <<
        \* "Tell me about your design work"
        <<"T", "e", "l", "l", " ", "m", "e", " ", "a", "b", "o", "u", "t",
          " ", "y", "o", "u", "r", " ", "d", "e", "s", "i", "g", "n", " ",
          "w", "o", "r", "k">>,
        \* "What projects are you proud of?"
        <<"W", "h", "a", "t", " ", "p", "r", "o", "j", "e", "c", "t", "s",
          " ", "a", "r", "e", " ", "y", "o", "u", " ", "p", "r", "o", "u",
          "d", " ", "o", "f", "?">>,
        \* "How can I collaborate with you?"
        <<"H", "o", "w", " ", "c", "a", "n", " ", "I", " ", "c", "o", "l",
          "l", "a", "b", "o", "r", "a", "t", "e", " ", "w", "i", "t", "h",
          " ", "y", "o", "u", "?">>,
        \* "What's your design philosophy?"
        <<"W", "h", "a", "t", "'", "s", " ", "y", "o", "u", "r", " ", "d",
          "e", "s", "i", "g", "n", " ", "p", "h", "i", "l", "o", "s", "o",
          "p", "h", "y", "?">>
    >>

\* (prevIndex) => (prevIndex + 1) % chatConfig.suggestedPrompts.length
NextPromptIndex(prevIndex) == (prevIndex + 1) % Len(SuggestedPrompts)

NextLoadingStepNoWrap(prevStep) == prevStep + 1

\* (prevStep) => prevStep >= 5 ? 1 : prevStep + 1
NextLoadingStep(prevStep) == IF prevStep >= 5 THEN 1 ELSE prevStep + 1

\* The callback of the rotation interval: the prompt fades out and the
\* timeout that changes it is started.  The timeout of the tick before
\* (500 ms) has run by the time of the next tick (5000 ms).
RotationTick ==
    /\ rotationInterval
    /\ ~fadeTimeout
    /\ promptVisible' = FALSE
    /\ fadeTimeout' = TRUE
    /\ lastCall' = "none"
    /\ UNCHANGED <<hasWindow, sessionStorage, localStorage, mounted, message,
                   conversation, error, isLoading, sessionId, userId, requests,
                   origin, idLog, loadingStep, currentPromptIndex, rotationInterval,
                   animationTimer, unmounted>>

\* The callback of the timeout: no cleanup clears it, so it runs whatever
\* has happened since the tick.  React drops the updates of a component
\* that is no longer mounted.
FadeTimeout ==
    /\ fadeTimeout
    /\ fadeTimeout' = FALSE
    /\ IF unmounted
       THEN UNCHANGED <<currentPromptIndex, promptVisible>>
       ELSE /\ currentPromptIndex' = NextPromptIndex(currentPromptIndex)
            /\ promptVisible' = TRUE
    /\ lastCall' = "none"
    /\ UNCHANGED <<hasWindow, sessionStorage, localStorage, mounted, message,
                   conversation, error, isLoading, sessionId, userId, requests,
                   origin, idLog, loadingStep, rotationInterval, animationTimer,
                   unmounted>>

\* The callback of the animation interval.
AnimationTick ==
    /\ animationTimer
    /\ loadingStep' = NextLoadingStep(loadingStep)
    /\ lastCall' = "none"
    /\ UNCHANGED <<hasWindow, sessionStorage, localStorage, mounted, message,
                   conversation, error, isLoading, sessionId, userId, requests,
                   origin, idLog, currentPromptIndex, promptVisible,
                   rotationInterval, fadeTimeout, animationTimer, unmounted>>

HandlePromptClickSubmitsInput ==
    /\ mounted
    /\ ~unmounted
    /\ Len(conversation) = 0
    /\ SubmitMessage(message)
    /\ Effects
    /\ UNCHANGED <<hasWindow, sessionStorage, localStorage, mounted, sessionId,
                   userId, idLog>>

\* onClick={() => handlePromptClick(chatConfig.suggestedPrompts[currentPromptIndex])}
\* of the suggestion button, which is rendered while the conversation is
\* empty.
HandlePromptClick ==
    /\ mounted
    /\ ~unmounted
    /\ Len(conversation) = 0
    /\ SubmitMessage(SuggestedPrompts[currentPromptIndex + 1])
    /\ Effects
    /\ UNCHANGED <<hasWindow, sessionStorage, localStorage, mounted, sessionId,
                   userId, idLog>>

\* The component is removed from the page: the cleanups of the two timer
\* effects run, and the state is no longer updated.
Teardown ==
    /\ mounted
    /\ ~unmounted
    /\ unmounted' = TRUE
    /\ rotationInterval' = FALSE
    /\ animationTimer' = FALSE
    /\ lastCall' = "none"
    /\ UNCHANGED <<hasWindow, sessionStorage, localStorage, mounted, message,
                   conversation, error, isLoading, sessionId, userId, requests,
                   origin, idLog, loadingStep, currentPromptIndex, promptVisible,
                   fadeTimeout>>

NextTimers ==
    \/ Mount
    \/ Type
    \/ HandleSubmit
    \/ HandlePromptClick
    \/ FetchSettles
    \/ JsonSettles
    \/ RotationTick
    \/ FadeTimeout
    \/ AnimationTick
    \/ Teardown

\* The widget with its timers, the suggestion button and its teardown.
SpecTimers == Init /\ [][NextTimers]_vars

\* A rendering pass on the server: there is no window, and the storages are
\* those of the browser the page is then delivered to.
InitSsr ==
    /\ hasWindow = FALSE
    /\ sessionStorage \in StoredValues
    /\ localStorage \in StoredValues
    /\ ComponentInit

\* getSessionId() called in the current context.
GetSessionIdCall ==
    /\ Len(idLog.session) < MaxIdCalls
    /\ \E seed \in UuidSeeds :
          LET rs == GetSessionId(hasWindow, sessionStorage, seed)
          IN  /\ sessionStorage' = rs.stored
              /\ idLog' = LogCall(idLog, "session", rs)
    /\ lastCall' = "none"
    /\ UNCHANGED <<hasWindow, localStorage, mounted, message, conversation, error,
                   isLoading, sessionId, userId, requests, origin>>
    /\ UNCHANGED timerVars

\* getUserId() called in the current context.
GetUserIdCall ==
    /\ Len(idLog.user) < MaxIdCalls
    /\ \E seed \in UuidSeeds :
          LET ru == GetUserId(hasWindow, localStorage, seed)
          IN  /\ localStorage' = ru.stored
              /\ idLog' = LogCall(idLog, "user", ru)
    /\ lastCall' = "none"
    /\ UNCHANGED <<hasWindow, sessionStorage, mounted, message, conversation,
                   error, isLoading, sessionId, userId, requests, origin>>
    /\ UNCHANGED timerVars

\* The rendered page reaches the browser: window exists from now on, the
\* component state is the useState defaults, no effect has run yet.
Hydrate ==
    /\ ~hasWindow
    /\ ~mounted
    /\ hasWindow' = TRUE
    /\ lastCall' = "none"
    /\ UNCHANGED <<sessionStorage, localStorage, mounted, message, conversation,
                   error, isLoading, sessionId, userId, requests, origin, idLog>>
    /\ UNCHANGED timerVars

NextSsr == GetSessionIdCall \/ GetUserIdCall \/ Hydrate \/ Mount

SpecSsr == InitSsr /\ [][NextSsr]_vars

\* The page opened in a new tab by a returning visitor: sessionStorage is
\* empty, localStorage holds a userId.
InitPage ==
    /\ hasWindow = TRUE
    /\ sessionStorage = Null
    /\ localStorage = Str(Repeat("x", 1))
    /\ ComponentInit

\* The widget where the mount effect generates the sessionId.
SpecPage == InitPage /\ [][Next]_vars

NextIds ==
    \/ Mount
    \/ Reload

\* The identifier bootstrap alone, over every content of the storages.
SpecIds == InitIds /\ [][NextIds]_vars

\* Every request issued is answered: fetch settles, and so does res.json().
FairSpec == Spec /\ WF_vars(FetchSettles) /\ WF_vars(JsonSettles)

----------------------------------------------------------------------------
(* Properties of submitMessage *)

UserMessagesOf(r) ==
    {i \in DOMAIN conversation : origin[i] = r /\ conversation[i].role = "user"}

AgentMessagesOf(r) ==
    {i \in DOMAIN conversation : origin[i] = r /\ conversation[i].role = "agent"}

IsPrefix(s, t) == Len(s) <= Len(t) /\ SubSeq(t, 1, Len(s)) = s

\* C1: a submitMessage call whose input is empty or white space only
\* changes neither the input text, the conversation, the error nor the
\* loading flag, and issues no POST.
C1_BlankSubmitIsNoOp ==
    [][(IsBlank(message) /\ lastCall' # "none")
          => /\ lastCall' = "ignored"
             /\ UNCHANGED <<message, conversation, error, isLoading, requests>>]_vars

\* A white-space-only text has just been submitted while an error is shown
\* and a request is in flight.
C1_Witness ==
    /\ lastCall = "ignored"
    /\ message = <<" ", " ">>
    /\ conversation # <<>>
    /\ error # Null
    /\ InFlight # {}

\* C2: a submitMessage call whose trimmed input is not empty appends exactly
\* one Message {role: "user", content: trimmed input}, and issues one POST,
\* which starts when the conversation already holds that Message.
C2_UserMessageBeforePost ==
    [][(~IsBlank(message) /\ lastCall' # "none")
          => /\ lastCall' = "sent"
             /\ conversation' =
                    Append(conversation, [role |-> "user", content |-> Trim(message)])
             /\ Len(requests') = Len(requests) + 1
             /\ SubSeq(requests', 1, Len(requests)) = requests
             /\ requests'[Len(requests')].pc = "fetch"
             /\ requests'[Len(requests')].at = Len(conversation) + 1]_vars

\* A text with white space around it was submitted: its trimmed form is the
\* last Message, and the request started after the append.
C2_Witness ==
    /\ lastCall = "sent"
    /\ Len(conversation) >= 2
    /\ conversation[Len(conversation)] = [role |-> "user", content |-> <<"a">>]
    /\ requests[Len(requests)].input = <<" ", "a", " ">>
    /\ requests[Len(requests)].at = Len(conversation)

BodyWithContent(c) == Obj([output_data |-> Obj([content |-> Str(c)])])

\* C3: when a submission, with nothing appended since its user Message,
\* completes with a 2xx response whose body has output_data.content = c, c a
\* non-empty string, the conversation has gained that user Message (content:
\* the trimmed input) and then {role: "agent", content: c}, and nothing else.
C3_SuccessAppendsUserThenAgent ==
    [][\A r \in DOMAIN requests : \A c \in ReplyTexts :
          (JsonResolve(r, BodyWithContent(c)) /\ requests[r].at = Len(conversation))
              => /\ c # <<>>
                 /\ conversation' =
                        SubSeq(conversation, 1, requests[r].at - 1)
                            \o <<[role |-> "user", content |-> Trim(requests[r].input)],
                                 [role |-> "agent", content |-> c]>>]_vars

\* One submission alone, answered with content "Hi".
C3_Witness ==
    /\ Len(requests) = 1
    /\ requests[1].result = "ok"
    /\ conversation = <<[role |-> "user", content |-> <<"b", " ", "c">>],
                        [role |-> "agent", content |-> <<"H", "i">>]>>

\* The parsed bodies that carry no output_data.content: output_data is
\* missing (also when the body is null) or null, or it has no content.
OmitsContent(data) ==
    \/ data = Null
    \/ Get(data, "output_data") \in {Undefined, Null}
    \/ /\ Get(data, "output_data").t = "object"
       /\ Get(Get(data, "output_data"), "content") = Undefined

\* C4: when a submission completes with a 2xx response whose parsed body
\* omits output_data.content, an agent Message is appended whose content is
\* "No valid response received from agent.", never the empty string, and no
\* error is set.
C4_MissingContentGivesFallback ==
    [][\A r \in DOMAIN requests : \A data \in ResponseBodies :
          (r \in Parsing /\ OmitsContent(data) /\ JsonResolve(r, data))
              => /\ conversation' =
                        Append(conversation,
                               [role |-> "agent", content |-> NoValidResponse])
                 /\ NoValidResponse # <<>>
                 /\ error' = error
                 /\ requests'[r].result = "ok"]_vars

FailureTexts ==
    {"Server error: " \o ToString(status) : status \in {s \in Statuses : ~Ok(s)}}
        \cup NetworkErrors \cup ParseErrors

\* Request r fails in this step, in one of the three ways, with this text.
FailsWith(r, text) ==
    \/ \E status \in Statuses :
          /\ ~Ok(status)
          /\ text = "Server error: " \o ToString(status)
          /\ FetchResolve(r, status)
    \/ text \in NetworkErrors /\ FetchReject(r, text)
    \/ text \in ParseErrors /\ JsonReject(r, text)

\* C5: when a submission fails by a non-2xx status, a network failure or a
\* JSON parse failure, the failing step appends nothing, sets the error to
\* the failure's message text and the loading flag to false; the
\* conversation holds exactly one Message of that submission, the user's.
C5_FailureSetsErrorOnly ==
    [][\A r \in DOMAIN requests : \A text \in FailureTexts :
          (r \in InFlight /\ FailsWith(r, text))
              => /\ conversation' = conversation
                 /\ error' = Str(text)
                 /\ error' # Null
                 /\ isLoading' = FALSE
                 /\ requests'[r].result = "failed"
                 /\ {i \in DOMAIN conversation' : origin'[i] = r} = {requests[r].at}
                 /\ conversation'[requests[r].at] = requests[r].payload.data.message
                 /\ conversation'[requests[r].at].role = "user"]_vars

\* A submission alone failed with HTTP 500.
C5_Witness ==
    /\ Len(requests) = 1
    /\ requests[1].result = "failed"
    /\ Len(conversation) = 1
    /\ conversation[1].role = "user"
    /\ error = Str("Server error: 500")
    /\ ~isLoading

\* C6: every exit of submitMessage after its request was issued sets the
\* loading flag to false; with every request answered, a loading flag that
\* is true becomes false.
C6_LoadingIsCleared ==
    /\ [][\A r \in DOMAIN requests :
             (requests[r].pc # "done" /\ requests'[r].pc = "done") => ~isLoading']_vars
    /\ (isLoading ~> ~isLoading)

\* Both exits were taken, one request failed and one succeeded, and the
\* loading flag is false.
C6_Witness ==
    /\ \E r \in DOMAIN requests : requests[r].result = "failed"
    /\ \E r \in DOMAIN requests : requests[r].result = "ok"
    /\ InFlight = {}
    /\ ~isLoading

\* C7: in every reachable conversation, a user Message whose request
\* succeeded is followed at the next position by the one agent Message that
\* answers it, and a user Message whose request failed has no agent Message.
C7_ReplyFollowsItsUserMessage ==
    \A r \in DOMAIN requests :
        /\ requests[r].result = "ok"
              => /\ AgentMessagesOf(r) = {requests[r].at + 1}
                 /\ UserMessagesOf(r) = {requests[r].at}
        /\ requests[r].result = "failed" => AgentMessagesOf(r) = {}

HasRoles ==
    \A i \in DOMAIN conversation : conversation[i].role \in {"user", "agent"}

\* C8: the conversation is append-only, every step leaves the old
\* conversation a prefix of the new one, and every Message has role "user"
\* or "agent".
C8_ConversationAppendOnly ==
    /\ [][IsPrefix(conversation, conversation')]_vars
    /\ []HasRoles

\* Two submissions were both answered.
C8_Witness ==
    /\ Len(conversation) = 4
    /\ \E i \in DOMAIN conversation : conversation[i].role = "user"
    /\ \E i \in DOMAIN conversation : conversation[i].role = "agent"

----------------------------------------------------------------------------
(* Properties of the identifier bootstrap *)

\* C9: called any number of times against the same storage, getSessionId
\* returns the same value every time, and so does getUserId; no call after
\* the first writes to the storage.
C9_BootstrapIdempotent ==
    \A fn \in DOMAIN idLog :
        \A i \in DOMAIN idLog[fn] :
            /\ idLog[fn][i].ret = idLog[fn][1].ret
            /\ i > 1 => ~idLog[fn][i].wrote

\* getSessionId ran three times, and its first call generated the identifier.
C9_Witness ==
    /\ Len(idLog.session) = 3
    /\ idLog.session[1].wrote
    /\ Len(idLog.user) = 3

\* A stored value that is an identifier: a string of 1 to 32 characters.
IsStoredId(stored) ==
    /\ stored # Null
    /\ Len(stored.v) >= 1
    /\ Len(stored.v) <= 32

\* What C10 says of one call: stored and after are the storage entry before
\* and after it, call is the logged call.
BootstrapsId(stored, after, call) ==
    /\ call.ret # <<>>
    /\ Len(call.ret) <= 32
    /\ after = Str(call.ret)
    /\ IF IsStoredId(stored)
       THEN /\ call.ret = stored.v
            /\ after = stored
            /\ ~call.wrote
       ELSE /\ call.wrote
            /\ after # stored

\* C10: in a browser, getSessionId and getUserId return a non-empty
\* identifier of at most 32 characters that is the value left in storage: a
\* stored value of 1 to 32 characters is returned and nothing is written;
\* an absent, empty or longer one is replaced by a new identifier, which is
\* written and returned.
C10_BootstrapReturnsStoredId ==
    [][(hasWindow /\ Len(idLog'.session) = Len(idLog.session) + 1)
          => /\ BootstrapsId(sessionStorage, sessionStorage',
                             idLog'.session[Len(idLog'.session)])
             /\ BootstrapsId(localStorage, localStorage',
                             idLog'.user[Len(idLog'.user)])
             /\ sessionId' = idLog'.session[Len(idLog'.session)].ret
             /\ userId' = idLog'.user[Len(idLog'.user)].ret]_vars

\* The mount effect ran where sessionStorage held an over-long value, which
\* was replaced, and localStorage an identifier of 32 characters, which was kept.
C10_Witness ==
    /\ mounted
    /\ Len(idLog.session) = 1
    /\ idLog.session[1].wrote
    /\ sessionStorage = Str(sessionId)
    /\ ~idLog.user[1].wrote
    /\ userId = Repeat("x", 32)

----------------------------------------------------------------------------
(* Further properties of submitMessage *)

UserMessages == {i \in DOMAIN conversation : conversation[i].role = "user"}

\* C12: a failure is not fatal.  With an error set by a failed submission,
\* a submitMessage call with non-blank input is accepted like a first one,
\* it appends the user Message and issues a POST; and a request that
\* succeeds after another one failed appends its agent Message.
C12_UsableAfterFailure ==
    /\ [][(error # Null /\ ~IsBlank(message) /\ lastCall' # "none")
             => /\ lastCall' = "sent"
                /\ conversation' =
                       Append(conversation,
                              [role |-> "user", content |-> Trim(message)])
                /\ Len(requests') = Len(requests) + 1
                /\ requests'[Len(requests')].pc = "fetch"]_vars
    /\ [][\A r \in DOMAIN requests : \A data \in ResponseBodies \ {Null} :
             (JsonResolve(r, data)
                 /\ \E q \in DOMAIN requests : requests[q].result = "failed")
                 => /\ Len(conversation') = Len(conversation) + 1
                    /\ conversation'[Len(conversation')].role = "agent"
                    /\ origin'[Len(conversation')] = r]_vars

\* The first submission failed, the second, made with the error shown, was
\* answered: its submit cleared the error, which nothing else does.
C12_Witness ==
    /\ Len(requests) = 2
    /\ requests[1].result = "failed"
    /\ requests[2].result = "ok"
    /\ error = Null
    /\ AgentMessagesOf(2) # {}

\* C13: there is no retry.  A submitMessage call with non-blank input issues
\* exactly one POST, no other step issues one, whether a request succeeds
\* or fails; the number of POSTs issued is the number of user Messages.
C13_OnePostPerUserMessage ==
    /\ [][Len(requests') = Len(requests) + (IF lastCall' = "sent" THEN 1 ELSE 0)]_vars
    /\ [](Len(requests) = Cardinality(UserMessages))

\* Two submissions, one failed and one answered, and two POSTs.
C13_Witness ==
    /\ Len(requests) = 2
    /\ \E r \in DOMAIN requests : requests[r].result = "failed"
    /\ \E r \in DOMAIN requests : requests[r].result = "ok"
    /\ Cardinality(UserMessages) = 2

\* C14: a submitMessage call with non-blank input sets the input text to
\* empty and the error to null in the step that issues its request; after
\* that an error appears only when a request fails.
C14_SubmitClearsInputAndError ==
    /\ [][(~IsBlank(message) /\ lastCall' # "none")
             => /\ message' = <<>>
                /\ error' = Null
                /\ requests'[Len(requests')].pc = "fetch"]_vars
    /\ [][(error' # Null /\ error' # error)
             => \E r \in DOMAIN requests :
                   requests[r].result = "pending" /\ requests'[r].result = "failed"]_vars

\* A text was submitted while the error of the failed first submission was
\* shown: the error is gone and the new request is in flight.
C14_Witness ==
    /\ lastCall = "sent"
    /\ Len(requests) = 2
    /\ requests[1].result = "failed"
    /\ requests[2].pc = "fetch"
    /\ error = Null
    /\ message = <<>>

\* C15: submitMessage does not test the loading flag.  Called with non-blank
\* input while a request is outstanding, it appends a second user Message
\* and issues a second POST, so two requests are in flight at once.
C15_ResubmitWhileLoading ==
    [][(isLoading /\ InFlight # {} /\ ~IsBlank(message) /\ lastCall' # "none")
          => /\ lastCall' = "sent"
             /\ conversation' =
                    Append(conversation, [role |-> "user", content |-> Trim(message)])
             /\ Len(requests') = Len(requests) + 1
             /\ InFlight' = InFlight \cup {Len(requests')}
             /\ Cardinality(InFlight') >= 2]_vars

\* Two requests are in flight.
C15_Witness ==
    /\ isLoading
    /\ Cardinality(InFlight) = 2
    /\ Cardinality(UserMessages) = 2
    /\ lastCall = "sent"

\* C20: every POST carries {data: {message: M}, stateful: true, stream:
\* false, user_id, session_id, verbose: false}, M the user Message its call
\* appended, user_id and session_id the non-empty identifiers held in
\* localStorage and sessionStorage, the same in every request.
C20_PayloadOfEveryPost ==
    \A r \in DOMAIN requests :
        /\ requests[r].payload =
              [data |-> [message |-> conversation[requests[r].at]],
               stateful |-> TRUE,
               stream |-> FALSE,
               user_id |-> localStorage.v,
               session_id |-> sessionStorage.v,
               verbose |-> FALSE]
        /\ conversation[requests[r].at].role = "user"
        /\ UserMessagesOf(r) = {requests[r].at}
        /\ requests[r].payload.user_id # <<>>
        /\ requests[r].payload.session_id # <<>>
        /\ requests[r].payload.user_id = requests[1].payload.user_id
        /\ requests[r].payload.session_id = requests[1].payload.session_id

\* Two POSTs were issued in a page whose sessionId was generated on mount.
C20_Witness ==
    /\ Len(requests) = 2
    /\ idLog.session[1].wrote
    /\ ~idLog.user[1].wrote
    /\ requests[2].payload.session_id = sessionId
    /\ requests[2].payload.data.message # requests[1].payload.data.message

----------------------------------------------------------------------------
(* Server-side rendering *)

NewIdCalls(fn) ==
    {idLog'[fn][i] : i \in (DOMAIN idLog'[fn]) \ (DOMAIN idLog[fn])}

\* C11: without a window, getSessionId and getUserId return "" and neither
\* read nor write a storage; sessionId and userId stay "" until the mount
\* effect has run, which happens in a browser context only.
C11_NoStorageOnServer ==
    /\ [][~hasWindow
            => /\ \A fn \in {"session", "user"} : \A c \in NewIdCalls(fn) :
                     c.ret = <<>> /\ ~c.read /\ ~c.wrote
               /\ sessionStorage' = sessionStorage
               /\ localStorage' = localStorage
               /\ ~mounted']_vars
    /\ [](~mounted => sessionId = <<>> /\ userId = <<>>)
    /\ [](mounted => hasWindow /\ sessionId # <<>> /\ userId # <<>>)

\* Both functions were called on the server and returned "", leaving the
\* storages unread, and the mount effect in the browser then set both ids.
C11_Witness ==
    /\ mounted
    /\ Len(idLog.session) >= 2
    /\ Len(idLog.user) >= 2
    /\ idLog.session[1] = [ret |-> <<>>, read |-> FALSE, wrote |-> FALSE]
    /\ idLog.user[1] = [ret |-> <<>>, read |-> FALSE, wrote |-> FALSE]
    /\ idLog.session[Len(idLog.session)].ret = sessionId
    /\ sessionId # <<>>
    /\ userId # <<>>

----------------------------------------------------------------------------
(* Timers and the suggestion button *)

\* C16: the suggestion index changes only while the conversation is empty,
\* each change sets it to (index + 1) mod the number of suggested prompts,
\* and it stays within 0..length-1.
C16_RotationOnlyWhileEmpty ==
    /\ [][currentPromptIndex' # currentPromptIndex
            => /\ Len(conversation) = 0
               /\ currentPromptIndex' =
                      (currentPromptIndex + 1) % Len(SuggestedPrompts)]_vars
    /\ [](currentPromptIndex \in 0..(Len(SuggestedPrompts) - 1))

\* C17: once the component is torn down, or the conversation is non-empty,
\* no step changes currentPromptIndex or promptVisible; once it is torn
\* down, or isLoading is false, no step changes loadingStep.
C17_NoTimerCallbackAfterCancel ==
    [][/\ (unmounted \/ Len(conversation) > 0)
            => UNCHANGED <<currentPromptIndex, promptVisible>>
       /\ (unmounted \/ ~isLoading) => UNCHANGED loadingStep]_vars

\* C18: loadingStep is in 1..5; a tick of the animation interval happens
\* while isLoading only and maps s < 5 to s + 1 and 5 to 1; while isLoading
\* is false loadingStep is 1, the interval is cleared and no step changes
\* loadingStep.
C18_LoadingStepCycle ==
    /\ [](loadingStep \in 1..5)
    /\ [][AnimationTick
            => /\ isLoading
               /\ loadingStep' = IF loadingStep < 5 THEN loadingStep + 1 ELSE 1]_vars
    /\ [](~isLoading => loadingStep = 1 /\ ~animationTimer)
    /\ [][(~isLoading /\ ~isLoading') => loadingStep' = loadingStep]_vars

\* The counter has reached 5 while a request is pending; the next tick
\* takes it to 1.
C18_Witness ==
    /\ isLoading
    /\ animationTimer
    /\ loadingStep = 5
    /\ InFlight # {}

\* C19: a click on the suggestion button appends the user Message whose
\* content is suggestedPrompts[currentPromptIndex], and posts it, whatever
\* the input field holds.
C19_ClickSubmitsShownPrompt ==
    [][HandlePromptClick
          => /\ lastCall' = "sent"
             /\ conversation' =
                    Append(conversation,
                           [role |-> "user",
                            content |-> SuggestedPrompts[currentPromptIndex + 1]])
             /\ requests'[Len(requests')].payload.data.message.content =
                    SuggestedPrompts[currentPromptIndex + 1]
             /\ requests'[Len(requests')].input =
                    SuggestedPrompts[currentPromptIndex + 1]]_vars

\* The third suggestion was shown when the button was clicked.
C19_Witness ==
    /\ Len(conversation) >= 1
    /\ conversation[1] = [role |-> "user", content |-> SuggestedPrompts[3]]
    /\ requests[1].input = SuggestedPrompts[3]
    /\ requests[1].payload.data.message.content \notin {Trim(s) : s \in InputStrings}

----------------------------------------------------------------------------
(* The conversation under overlapping submissions *)

AgentMessages == {i \in DOMAIN conversation : conversation[i].role = "agent"}

FailedRequests == {r \in DOMAIN requests : requests[r].result = "failed"}

\* C21: in every prefix of the conversation there are at most as many agent
\* Messages as user Messages; with no request in flight, the user Messages
\* are as many as the agent Messages and the failed submissions together.
C21_AgentsNeverOutnumberUsers ==
    /\ \A n \in 0..Len(conversation) :
          Cardinality(AgentMessages \cap 1..n) <= Cardinality(UserMessages \cap 1..n)
    /\ InFlight = {}
          => Cardinality(UserMessages) =
                 Cardinality(AgentMessages) + Cardinality(FailedRequests)

\* One submission was answered, the next one failed, nothing is in flight.
C21_Witness ==
    /\ InFlight = {}
    /\ Len(conversation) = 3
    /\ conversation[1].role = "user"
    /\ conversation[2].role = "agent"
    /\ conversation[3].role = "user"
    /\ FailedRequests = {2}

\* C22: isLoading is true in every state in which a request is in flight.
C22_LoadingWhileInFlight == InFlight # {} => isLoading

\* C23: an agent Message is appended when its response arrives, after every
\* user Message submitted by then, whatever the order of the requests; so
\* the reply to a later submission can stand before the reply to an earlier
\* one, both after both user Messages.
C23_RepliesInArrivalOrder ==
    [][\A r \in DOMAIN requests : \A data \in ResponseBodies \ {Null} :
          JsonResolve(r, data)
             => /\ Len(conversation') = Len(conversation) + 1
                /\ SubSeq(conversation', 1, Len(conversation)) = conversation
                /\ conversation'[Len(conversation')].role = "agent"
                /\ origin'[Len(conversation')] = r
                /\ \A q \in DOMAIN requests :
                      /\ requests[q].at < Len(conversation')
                      /\ conversation'[requests[q].at].role = "user"
                      /\ origin'[requests[q].at] = q]_vars

\* Two overlapping submissions, the second answered first.
C23_Witness ==
    /\ Len(conversation) = 4
    /\ [i \in 1..4 |-> conversation[i].role] = <<"user", "user", "agent", "agent">>
    /\ origin = <<1, 2, 2, 1>>

----------------------------------------------------------------------------
(* What a completion leaves alone *)

Succeeds(r) == requests[r].result = "pending" /\ requests'[r].result = "ok"

Fails(r) == requests[r].result = "pending" /\ requests'[r].result = "failed"

\* C24: the step in which a request succeeds sets the input text to empty;
\* the step in which a request fails, and the step between fetch and
\* res.json(), leave the input text as it was.
C24_OnlySuccessClearsInput ==
    [][\A r \in DOMAIN requests :
          /\ Succeeds(r) => message' = <<>>
          /\ Fails(r) => message' = message
          /\ (requests[r].pc = "fetch" /\ requests'[r].pc = "json")
                => message' = message]_vars

\* A text is in the input field, one request has succeeded and one has
\* failed, nothing is in flight.
C24_Witness ==
    /\ message # <<>>
    /\ InFlight = {}
    /\ Len(requests) = 2
    /\ requests[1].result = "ok"
    /\ requests[2].result = "failed"
    /\ error # Null

\* C25: an error that is set becomes null only in an accepted submitMessage
\* step, and changes otherwise only when another request fails; an ignored
\* submission, typing, a timer callback and the success of a request leave
\* it as it was.
C25_ErrorClearedOnlyBySubmit ==
    [][error # Null
          => /\ error' = Null => lastCall' = "sent"
             /\ error' # error
                   => (lastCall' = "sent" \/ \E r \in DOMAIN requests : Fails(r))
             /\ lastCall' = "ignored" => error' = error
             /\ (Type \/ RotationTick \/ FadeTimeout \/ AnimationTick)
                   => error' = error
             /\ \A r \in DOMAIN requests : Succeeds(r) => error' = error]_vars

\* The first of two overlapping requests failed and the second succeeded:
\* the error of the first is still set.
C25_Witness ==
    /\ error # Null
    /\ Len(requests) = 2
    /\ requests[1].result = "failed"
    /\ requests[2].result = "ok"
    /\ AgentMessagesOf(2) # {}
    /\ InFlight = {}

====
